---- MODULE Spec2Model ----
(***************************************************************************)
(* LivyInteractiveSessionClient: one client object driving one Livy        *)
(* interactive session over HTTP (create, poll until idle, submit          *)
(* statements and poll their output, delete).  The remote service is the   *)
(* environment: every response is chosen nondeterministically from the     *)
(* shapes the code reads.  Every HTTP exchange is appended to `net`.       *)
(***************************************************************************)
EXTENDS Integers, Sequences, FiniteSets, TLC

VARIABLES
    self,          \* instance attributes of the client object
    classHeaders,  \* `headers` as found on the object's class (attribute lookup falls back to it)
    pc,            \* position of the single calling thread
    session_id,    \* local variable session_id of create_session
    statement_id,  \* local variable statement_id of submit_statement / get_output
    net,           \* HTTP exchanges so far, in order: <<[req, resp, at]>>
    clock,         \* time spent in time.sleep
    result         \* outcome of the last finished operation

vars == <<self, classHeaders, pc, session_id, statement_id, net, clock, result>>

-----------------------------------------------------------------------------
(* Bounds of the model *)

MaxReqs == 6       \* HTTP requests per behaviour

-----------------------------------------------------------------------------
(* Program constants *)

created == 201         \* requests.codes.created
ok == 200              \* requests.codes.ok
SleepInterval == 15    \* time.sleep(15)

Unset == "<unset>"     \* attribute not assigned
None == "None"         \* Python None (a missing JSON key read with .get)
Absent == "<absent>"   \* JSON key missing from a body read with [...]

JsonHeaders == "Content-Type: application/json"

-----------------------------------------------------------------------------
(* Inputs and remote responses *)

Urls == {"http://livy:8998"}
\* (config, jars) as given to __init__
Arguments == {<<"{}", <<>> >>, <<"{spark.executor.memory: 1g}", <<"a.jar">> >>}
Codes == {"1+1", "x"}
Ids == {"0", "5"}
Texts == {"2", "res0"}
Statuses == {ok, created, 404}
SessionStates == {"idle", "starting", "not_started", "error", "dead", None}
StatementStates == {"waiting", "running", "available", "error", "cancelled", None}

\* The body of GET .../statements/{id}.  output is read only for state
\* "available"; data only for status "ok".
NoOutput == [hasOutput |-> FALSE, status |-> None, hasData |-> FALSE, text |-> None]
Outputs ==
    {NoOutput}
        \cup [hasOutput : {TRUE}, status : {"error", None}, hasData : {FALSE}, text : {None}]
        \cup [hasOutput : {TRUE}, status : {"error"}, hasData : {TRUE}, text : {"2"}]
        \cup [hasOutput : {TRUE}, status : {"ok"}, hasData : {FALSE}, text : {None}]
        \cup [hasOutput : {TRUE}, status : {"ok"}, hasData : {TRUE}, text : Texts \cup {None}]

\* What the code reads of a response: r.status_code, r.json()['id'],
\* r.json().get("state") and r.json().get("output").
Response(status, id, state, output) ==
    [status |-> status, id |-> id, state |-> state, output |-> output]

\* POST responses: the id is read only when the status is 201.
PostResponses ==
    {Response(created, i, None, NoOutput) : i \in Ids \cup {Absent}}
        \cup {Response(s, Absent, None, NoOutput) : s \in Statuses \ {created}}

\* GET .../sessions/{id}: only the state is read.
SessionPollResponses == {Response(ok, Absent, st, NoOutput) : st \in SessionStates}

StatementPollResponses ==
    {Response(ok, Absent, st, NoOutput) : st \in StatementStates \ {"available"}}
        \cup {Response(ok, Absent, "available", o) : o \in Outputs}

\* DELETE .../sessions/{id}: only the status is read.
DeleteResponses == {Response(s, Absent, None, NoOutput) : s \in Statuses}

-----------------------------------------------------------------------------
(* Errors *)

\* An exception: its class, its message and, where the message is formatted
\* with r.status_code, that status code (0 where it carries none).
Err(cls, msg, status) == [cls |-> cls, msg |-> msg, status |-> status]
NoErr == Err("none", "", 0)

AttributeError(name) == Err("AttributeError", name, 0)
KeyError(name) == Err("KeyError", name, 0)

Returned(op, v) == [op |-> op, kind |-> "return", value |-> v, err |-> NoErr]
Raised(op, e) == [op |-> op, kind |-> "raise", value |-> None, err |-> e]
NoResult == [op |-> "none", kind |-> "none", value |-> None, err |-> NoErr]

-----------------------------------------------------------------------------
(* Requests *)

NoData == [kind |-> Absent, proxyUser |-> Absent, jars |-> <<>>, conf |-> Absent, code |-> Absent]

Request(method, url, data, headers) ==
    [method |-> method, url |-> url, data |-> data, headers |-> headers]

\* self.headers: the instance attribute if assigned, else the class attribute.
HeadersOf(obj, cls) == IF obj.headers # Unset THEN obj.headers ELSE cls

\* One request with its response, and the time slept so far when it was sent.
Exchange(req, resp, at) == [req |-> req, resp |-> resp, at |-> at]

\* Variant: the statement is posted to the sessions collection.
StatementsUrl_sessions(obj) == <<obj.livy_url, "sessions">>

\* Variant: the session id is formatted where the statement id belongs.
StatementUrl_session_id(obj, stid) ==
    <<obj.livy_url, "sessions", obj.session_id, "statements", obj.session_id>>

\* f"{self.livy_url}/sessions", .../sessions/{id}, .../sessions/{id}/statements[/{id}]
SessionsUrl(obj) == <<obj.livy_url, "sessions">>
SessionUrl(obj, sid) == <<obj.livy_url, "sessions", sid>>
StatementsUrl(obj) == <<obj.livy_url, "sessions", obj.session_id, "statements">>
StatementUrl(obj, stid) == <<obj.livy_url, "sessions", obj.session_id, "statements", stid>>

\* json.dumps of the two request bodies
SessionData(obj) ==
    [kind |-> "spark", proxyUser |-> "hadoop", jars |-> obj.jars, conf |-> obj.config,
     code |-> Absent]
StatementData(statement) == [NoData EXCEPT !.code = statement]

-----------------------------------------------------------------------------
(* The decisions the code takes on a response *)

CreationFailed(status) ==
    Err("Exception", "Livy Error: Session Post API failed with status code", status)
InitializationFailed ==
    Err("Exception", "Livy Error: Spark session initialization failed.", 0)
RemovalFailed(status) ==
    Err("HTTPError", "Livy Error: Session Delete API failed with status code", status)
SubmissionFailed(status) ==
    Err("HTTPError", "Livy Error: Statement Post API failed with status code", status)
StatementErrorState ==
    Err("Exception", "Spark Error: Statement execution failed", 0)
StatementNotOk ==
    Err("Exception", "Livy/Spark Error: Statement execution failed.", 0)

Go(next, v) == [kind |-> next, value |-> v, err |-> NoErr]
Raise(e) == [kind |-> "raise", value |-> None, err |-> e]

\* Variant: any status up to 201 counts as created.
create_session_post_le_created(r) ==
    IF r.status <= created
    THEN IF r.id = Absent THEN Raise(KeyError("id")) ELSE Go("poll", r.id)
    ELSE Raise(CreationFailed(r.status))

\* create_session after the POST: poll the new session, or raise.
create_session_post(r) ==
    IF r.status = created
    THEN IF r.id = Absent THEN Raise(KeyError("id")) ELSE Go("poll", r.id)
    ELSE Raise(CreationFailed(r.status))

\* Variant: "starting" is taken for ready.
create_session_poll_starting_ready(session_state, sid) ==
    IF session_state \in {"idle", "starting"} THEN Go("return", sid)
    ELSE IF session_state = "not_started" THEN Go("sleep", None)
    ELSE Raise(InitializationFailed)

\* Variant: every state but "idle" is waited on.
create_session_poll_waits_on_all(session_state, sid) ==
    IF session_state = "idle" THEN Go("return", sid)
    ELSE Go("sleep", None)

\* Variant: "idle" is waited on like "starting".
create_session_poll_idle_waits(session_state, sid) ==
    IF session_state \in {"starting", "not_started", "idle"} THEN Go("sleep", None)
    ELSE Raise(InitializationFailed)

\* Variant: only "starting" is waited on.
create_session_poll_not_started_fails(session_state, sid) ==
    IF session_state = "idle" THEN Go("return", sid)
    ELSE IF session_state = "starting" THEN Go("sleep", None)
    ELSE Raise(InitializationFailed)

\* create_session on one poll of the session state.
create_session_poll(session_state, sid) ==
    IF session_state = "idle" THEN Go("return", sid)
    ELSE IF session_state \in {"starting", "not_started"} THEN Go("sleep", None)
    ELSE Raise(InitializationFailed)

\* Variant: 201 is accepted as success too.
remove_session_delete_any_2xx(r) ==
    IF r.status \notin {ok, created} THEN Raise(RemovalFailed(r.status))
    ELSE Go("return", None)

\* remove_session after the DELETE.
remove_session_delete(r) ==
    IF r.status # ok THEN Raise(RemovalFailed(r.status)) ELSE Go("return", None)

\* Variant: the status is compared with 200 instead of 201.
submit_statement_post_checks_ok(r) ==
    IF r.status = ok
    THEN IF r.id = Absent THEN Raise(KeyError("id")) ELSE Go("poll", r.id)
    ELSE Raise(SubmissionFailed(r.status))

\* submit_statement after the POST: enter get_output, or raise.
submit_statement_post(r) ==
    IF r.status = created
    THEN IF r.id = Absent THEN Raise(KeyError("id")) ELSE Go("poll", r.id)
    ELSE Raise(SubmissionFailed(r.status))

\* Variant: a state the chain does not name is an error.
get_output_poll_else_raises(r) ==
    IF r.state = "error" THEN Raise(StatementErrorState)
    ELSE IF r.state \in {"running", "waiting"} THEN Go("sleep", None)
    ELSE IF r.state = "available"
    THEN IF ~r.output.hasOutput THEN Raise(AttributeError("get"))
         ELSE IF r.output.status = "ok"
         THEN IF ~r.output.hasData THEN Raise(AttributeError("get"))
              ELSE Go("return", r.output.text)
         ELSE Raise(StatementNotOk)
    ELSE Raise(StatementNotOk)

\* Variant: "waiting" is not named by the chain.
get_output_poll_waiting_unnamed(r) ==
    IF r.state = "error" THEN Raise(StatementErrorState)
    ELSE IF r.state = "running" THEN Go("sleep", None)
    ELSE IF r.state = "available"
    THEN IF ~r.output.hasOutput THEN Raise(AttributeError("get"))
         ELSE IF r.output.status = "ok"
         THEN IF ~r.output.hasData THEN Raise(AttributeError("get"))
              ELSE Go("return", r.output.text)
         ELSE Raise(StatementNotOk)
    ELSE Go("poll", None)

\* Variant: the output status is not checked.
get_output_poll_no_status_check(r) ==
    IF r.state = "error" THEN Raise(StatementErrorState)
    ELSE IF r.state \in {"running", "waiting"} THEN Go("sleep", None)
    ELSE IF r.state = "available"
    THEN IF ~r.output.hasOutput THEN Raise(AttributeError("get"))
         ELSE IF ~r.output.hasData THEN Raise(AttributeError("get"))
         ELSE Go("return", r.output.text)
    ELSE Go("poll", None)

\* Variant: "error" is waited on like "running".
get_output_poll_error_waits(r) ==
    IF r.state \in {"running", "waiting", "error"} THEN Go("sleep", None)
    ELSE IF r.state = "available"
    THEN IF ~r.output.hasOutput THEN Raise(AttributeError("get"))
         ELSE IF r.output.status = "ok"
         THEN IF ~r.output.hasData THEN Raise(AttributeError("get"))
              ELSE Go("return", r.output.text)
         ELSE Raise(StatementNotOk)
    ELSE Go("poll", None)

\* Variant: the status is returned in place of the text.
get_output_poll_returns_status(r) ==
    IF r.state = "error" THEN Raise(StatementErrorState)
    ELSE IF r.state \in {"running", "waiting"} THEN Go("sleep", None)
    ELSE IF r.state = "available"
    THEN IF ~r.output.hasOutput THEN Raise(AttributeError("get"))
         ELSE IF r.output.status = "ok"
         THEN IF ~r.output.hasData THEN Raise(AttributeError("get"))
              ELSE Go("return", r.output.status)
         ELSE Raise(StatementNotOk)
    ELSE Go("poll", None)

\* get_output on one poll of the statement.  A state the if/elif chain does
\* not name falls out of the chain and the while loop polls again at once.
get_output_poll(r) ==
    IF r.state = "error" THEN Raise(StatementErrorState)
    ELSE IF r.state \in {"running", "waiting"} THEN Go("sleep", None)
    ELSE IF r.state = "available"
    THEN IF ~r.output.hasOutput THEN Raise(AttributeError("get"))
         ELSE IF r.output.status = "ok"
         THEN IF ~r.output.hasData THEN Raise(AttributeError("get"))
              ELSE Go("return", r.output.text)
         ELSE Raise(StatementNotOk)
    ELSE Go("poll", None)

-----------------------------------------------------------------------------
(* State machine *)

\* The state when __init__ has stored its arguments and is about to call
\* create_session.  The class itself defines no `headers`; a subclass may.
Init ==
    /\ \E u \in Urls, a \in Arguments :
          self = [livy_url |-> u, jars |-> a[2], config |-> a[1],
                  session_id |-> Unset, headers |-> Unset]
    /\ classHeaders \in {Unset, JsonHeaders}
    /\ pc = "init"
    /\ session_id = Unset
    /\ statement_id = Unset
    /\ net = <<>>
    /\ clock = 0
    /\ result = NoResult

CanSend == Len(net) < MaxReqs

Send(req, resp) == net' = Append(net, Exchange(req, resp, clock))

\* __init__ calls create_session, which sends the creation POST.
CreateSessionPost ==
    /\ pc = "init"
    /\ IF HeadersOf(self, classHeaders) = Unset
       THEN /\ result' = Raised("__init__", AttributeError("headers"))
            /\ pc' = "dead"
            /\ UNCHANGED <<self, session_id, net>>
       ELSE \E r \in PostResponses :
            LET d == create_session_post(r) IN
            /\ Send(Request("POST", SessionsUrl(self), SessionData(self),
                            HeadersOf(self, classHeaders)), r)
            /\ IF d.kind = "poll"
               THEN /\ session_id' = d.value
                    /\ pc' = "create_poll"
                    /\ UNCHANGED result
               ELSE /\ result' = Raised("__init__", d.err)
                    /\ pc' = "dead"
                    /\ UNCHANGED session_id
            /\ UNCHANGED self
    /\ UNCHANGED <<classHeaders, statement_id, clock>>

\* Variant: a failed initialization deletes the session it created.
CreateSessionPoll_cleanup ==
    /\ pc = "create_poll"
    /\ CanSend
    /\ \E r \in SessionPollResponses, del \in DeleteResponses :
         LET d == create_session_poll(r.state, session_id)
             get == Exchange(Request("GET", SessionUrl(self, session_id), NoData,
                                     HeadersOf(self, classHeaders)), r, clock)
             delete == Exchange(Request("DELETE", SessionUrl(self, session_id), NoData,
                                        HeadersOf(self, classHeaders)), del, clock)
         IN
         CASE d.kind = "return" ->
                   /\ net' = Append(net, get)
                   /\ self' = [self EXCEPT !.session_id = d.value, !.headers = JsonHeaders]
                   /\ result' = Returned("__init__", d.value)
                   /\ pc' = "ready"
              [] d.kind = "sleep" ->
                   /\ net' = Append(net, get)
                   /\ pc' = "create_sleep"
                   /\ UNCHANGED <<self, result>>
              [] OTHER ->
                   /\ net' = net \o <<get, delete>>
                   /\ result' = Raised("__init__", d.err)
                   /\ pc' = "dead"
                   /\ UNCHANGED self
    /\ UNCHANGED <<classHeaders, session_id, statement_id, clock>>

\* One iteration of the while loop of create_session; on "idle" the id is
\* returned to __init__, which stores it and then sets self.headers.
CreateSessionPoll ==
    /\ pc = "create_poll"
    /\ CanSend
    /\ \E r \in SessionPollResponses :
         LET d == create_session_poll(r.state, session_id) IN
         /\ Send(Request("GET", SessionUrl(self, session_id), NoData,
                         HeadersOf(self, classHeaders)), r)
         /\ CASE d.kind = "return" ->
                   /\ self' = [self EXCEPT !.session_id = d.value, !.headers = JsonHeaders]
                   /\ result' = Returned("__init__", d.value)
                   /\ pc' = "ready"
              [] d.kind = "sleep" ->
                   /\ pc' = "create_sleep"
                   /\ UNCHANGED <<self, result>>
              [] OTHER ->
                   /\ result' = Raised("__init__", d.err)
                   /\ pc' = "dead"
                   /\ UNCHANGED self
    /\ UNCHANGED <<classHeaders, session_id, statement_id, clock>>

\* time.sleep(15); continue
CreateSessionSleep ==
    /\ pc = "create_sleep"
    /\ clock' = clock + SleepInterval
    /\ pc' = "create_poll"
    /\ UNCHANGED <<self, classHeaders, session_id, statement_id, net, result>>

\* Variant: a successful removal clears the owned session id.
RemoveSession_forgets_session ==
    /\ pc = "ready"
    /\ CanSend
    /\ \E r \in DeleteResponses :
         LET d == remove_session_delete(r) IN
         /\ Send(Request("DELETE", SessionUrl(self, self.session_id), NoData,
                         HeadersOf(self, classHeaders)), r)
         /\ result' = IF d.kind = "return" THEN Returned("remove_session", d.value)
                      ELSE Raised("remove_session", d.err)
         /\ self' = IF d.kind = "return" THEN [self EXCEPT !.session_id = Unset] ELSE self
    /\ UNCHANGED <<classHeaders, pc, session_id, statement_id, clock>>

RemoveSession ==
    /\ pc = "ready"
    /\ CanSend
    /\ \E r \in DeleteResponses :
         LET d == remove_session_delete(r) IN
         /\ Send(Request("DELETE", SessionUrl(self, self.session_id), NoData,
                         HeadersOf(self, classHeaders)), r)
         /\ result' = IF d.kind = "return" THEN Returned("remove_session", d.value)
                      ELSE Raised("remove_session", d.err)
    /\ UNCHANGED <<self, classHeaders, pc, session_id, statement_id, clock>>

SubmitStatement ==
    /\ pc = "ready"
    /\ CanSend
    /\ \E statement \in Codes, r \in PostResponses :
         LET d == submit_statement_post(r) IN
         /\ Send(Request("POST", StatementsUrl(self), StatementData(statement),
                         HeadersOf(self, classHeaders)), r)
         /\ IF d.kind = "poll"
            THEN /\ statement_id' = d.value
                 /\ pc' = "stmt_poll"
                 /\ result' = NoResult
            ELSE /\ result' = Raised("submit_statement", d.err)
                 /\ UNCHANGED <<pc, statement_id>>
    /\ UNCHANGED <<self, classHeaders, session_id, clock>>

\* One iteration of the while loop of get_output.
GetOutputPoll ==
    /\ pc = "stmt_poll"
    /\ CanSend
    /\ \E r \in StatementPollResponses :
         LET d == get_output_poll(r) IN
         /\ Send(Request("GET", StatementUrl(self, statement_id), NoData,
                         HeadersOf(self, classHeaders)), r)
         /\ CASE d.kind = "return" ->
                   /\ result' = Returned("submit_statement", d.value)
                   /\ pc' = "ready"
              [] d.kind = "sleep" ->
                   /\ pc' = "stmt_sleep"
                   /\ UNCHANGED result
              [] d.kind = "poll" ->
                   UNCHANGED <<pc, result>>
              [] OTHER ->
                   /\ result' = Raised("submit_statement", d.err)
                   /\ pc' = "ready"
    /\ UNCHANGED <<self, classHeaders, session_id, statement_id, clock>>

\* time.sleep(15); continue
GetOutputSleep ==
    /\ pc = "stmt_sleep"
    /\ clock' = clock + SleepInterval
    /\ pc' = "stmt_poll"
    /\ UNCHANGED <<self, classHeaders, session_id, statement_id, net, result>>

Next ==
    \/ CreateSessionPost
    \/ CreateSessionPoll
    \/ CreateSessionSleep
    \/ RemoveSession
    \/ SubmitStatement
    \/ GetOutputPoll
    \/ GetOutputSleep

Spec == Init /\ [][Next]_vars

-----------------------------------------------------------------------------
(* Reading the exchanges *)

IsSessionPost(x) == x.req.method = "POST" /\ Len(x.req.url) = 2
IsSessionGet(x) == x.req.method = "GET" /\ Len(x.req.url) = 3
IsDelete(x) == x.req.method = "DELETE" /\ Len(x.req.url) = 3
IsStatementPost(x) == x.req.method = "POST" /\ Len(x.req.url) = 4
IsStatementGet(x) == x.req.method = "GET" /\ Len(x.req.url) = 5

Sent == net # <<>>
LastX == net[Len(net)]

InProgressSessionStates == {"starting", "not_started"}
ReadySessionStates == {"idle"}

\* A creation request answered 201 with an id, and the session later seen idle.
CreatedThenIdle ==
    /\ Len(net) >= 2
    /\ IsSessionPost(net[1]) /\ net[1].resp.status = created /\ net[1].resp.id # Absent
    /\ \E i \in 2..Len(net) : IsSessionGet(net[i]) /\ net[i].resp.state = "idle"

Constructed == pc \in {"ready", "stmt_poll", "stmt_sleep"}

-----------------------------------------------------------------------------
(* Claims *)

\* C1: initialization never fails before the creation request is sent, and
\* once the creation request was answered 201 with an id and the session was
\* seen idle, initialization has completed with session_id the assigned id.
C1_InitializeCreatesSession ==
    /\ ~(result.op = "__init__" /\ result.kind = "raise" /\ ~Sent)
    /\ CreatedThenIdle => Constructed /\ self.session_id = net[1].resp.id

\* C2: every statement submission request in the exchanges is preceded by a
\* poll of the same session that reported the state idle.
C2_SubmitOnlyAfterIdle ==
    \A i \in 1..Len(net) :
        IsStatementPost(net[i]) =>
            \E j \in 1..(i - 1) :
                /\ IsSessionGet(net[j])
                /\ net[j].resp.state = "idle"
                /\ net[j].req.url[3] = net[i].req.url[3]

C2_Witness == Sent /\ IsStatementPost(LastX)

\* C3: whenever submit_statement has returned a value, the latest exchange
\* is the poll of its statement and that poll reported state available with
\* output status ok.
C3_ReturnOnlyWhenAvailableOk ==
    (result.op = "submit_statement" /\ result.kind = "return") =>
        /\ Sent
        /\ IsStatementGet(LastX)
        /\ LastX.req.url[5] = statement_id
        /\ LastX.resp.state = "available"
        /\ LastX.resp.output.hasOutput
        /\ LastX.resp.output.status = "ok"

C3_Witness ==
    /\ result.op = "submit_statement" /\ result.kind = "return"
    /\ Len(net) >= 2 /\ IsStatementGet(net[Len(net) - 1])
    /\ net[Len(net) - 1].resp.state = "running"

\* C4: a creation poll that reports a state other than idle, starting and
\* not_started is the last exchange of the client: initialization has failed
\* with the initialization error, which is no creation error.
C4_OtherStateFailsInitialization ==
    \A i \in 1..Len(net) :
        (IsSessionGet(net[i])
            /\ net[i].resp.state \notin ReadySessionStates \cup InProgressSessionStates) =>
                /\ i = Len(net)
                /\ pc = "dead"
                /\ result = Raised("__init__", InitializationFailed)
                /\ \A st \in Statuses : result.err # CreationFailed(st)

C4_Witness ==
    /\ Len(net) >= 3 /\ IsSessionGet(LastX) /\ LastX.resp.state = None
    /\ net[Len(net) - 1].resp.state = "starting"
    /\ pc = "dead"

\* C5: a creation request answered with a status other than 201 is the only
\* exchange of the client: initialization has failed with the creation error
\* carrying that status, and no session poll was sent.
C5_CreationRejected ==
    (Sent /\ IsSessionPost(net[1]) /\ net[1].resp.status # created) =>
        /\ Len(net) = 1
        /\ pc = "dead"
        /\ result = Raised("__init__", CreationFailed(net[1].resp.status))

C5_Witness ==
    Sent /\ IsSessionPost(net[1]) /\ net[1].resp.status = ok /\ pc = "dead"

\* C6: right after a statement poll that reports error, or available with an
\* output whose status is not "ok", submit_statement has raised the statement
\* execution error and returned no value.
StatementFailedPoll(x) ==
    /\ IsStatementGet(x)
    /\ \/ x.resp.state = "error"
       \/ x.resp.state = "available" /\ x.resp.output.hasOutput /\ x.resp.output.status # "ok"

C6_StatementExecutionError ==
    (Sent /\ StatementFailedPoll(LastX)) =>
        /\ pc = "ready"
        /\ result.op = "submit_statement"
        /\ result.kind = "raise"
        /\ result.value = None
        /\ result.err = IF LastX.resp.state = "error" THEN StatementErrorState
                        ELSE StatementNotOk

C6_Witness ==
    /\ Len(net) >= 3 /\ StatementFailedPoll(LastX) /\ LastX.resp.state = "available"
    /\ IsStatementGet(net[Len(net) - 1]) /\ net[Len(net) - 1].resp.state = "waiting"
    /\ IsStatementGet(net[Len(net) - 2]) /\ net[Len(net) - 2].resp.state = "running"

\* C7: right after a statement poll that reports available with output status
\* "ok" and a data object, submit_statement has returned the text/plain value
\* of that response and is polling no more.
StatementOkPoll(x) ==
    /\ IsStatementGet(x)
    /\ x.resp.state = "available"
    /\ x.resp.output.hasOutput /\ x.resp.output.status = "ok" /\ x.resp.output.hasData

C7_ReturnsTextUnchanged ==
    (Sent /\ StatementOkPoll(LastX)) =>
        /\ pc = "ready"
        /\ result = Returned("submit_statement", LastX.resp.output.text)

C7_Witness ==
    Sent /\ StatementOkPoll(LastX) /\ LastX.resp.output.text = "res0" /\ result.value = "res0"

\* C8: right after a statement submission answered with a status other than
\* 201, submit_statement has raised the submission error carrying that
\* status; and every statement poll follows a submission answered 201 or
\* another statement poll.
C8_SubmissionRejected ==
    /\ (Sent /\ IsStatementPost(LastX) /\ LastX.resp.status # created) =>
            /\ pc = "ready"
            /\ result = Raised("submit_statement", SubmissionFailed(LastX.resp.status))
    /\ \A i \in 1..Len(net) :
            IsStatementGet(net[i]) =>
                /\ i > 1
                /\ \/ IsStatementGet(net[i - 1])
                   \/ IsStatementPost(net[i - 1]) /\ net[i - 1].resp.status = created

C8_Witness ==
    /\ Sent /\ IsStatementPost(LastX) /\ LastX.resp.status = ok
    /\ result.op = "submit_statement"

\* C9: a step that sends a DELETE is a whole call of remove_session: it
\* sends that one request, for the session_id the client owns; it returns
\* silently exactly when the status is 200 and otherwise raises the removal
\* error carrying the status.
C9_RemoveSession ==
    [][(Len(net') > Len(net) /\ IsDelete(net'[Len(net')])) =>
          LET x == net'[Len(net')] IN
          /\ pc = "ready" /\ pc' = "ready"
          /\ net' = Append(net, x)
          /\ x.req.url = <<self.livy_url, "sessions", self.session_id>>
          /\ self.session_id = net[1].resp.id
          /\ (x.resp.status = ok) <=> (result' = Returned("remove_session", None))
          /\ (x.resp.status # ok) =>
                 result' = Raised("remove_session", RemovalFailed(x.resp.status))]_vars

C9_Witness ==
    /\ Sent /\ IsDelete(LastX) /\ LastX.resp.status = created
    /\ result.kind = "raise"

\* C10: a creation poll that reports idle is the last session poll of the
\* client; initialization has returned, and the client's session_id is the
\* id of the creation response.
C10_IdleReturnsOnce ==
    \A i \in 1..Len(net) :
        (IsSessionGet(net[i]) /\ net[i].resp.state = "idle") =>
            /\ \A j \in (i + 1)..Len(net) : ~IsSessionGet(net[j])
            /\ Constructed
            /\ self.session_id = net[1].resp.id
            /\ i = Len(net) => result = Returned("__init__", net[1].resp.id)

C10_Witness ==
    /\ Len(net) >= 4
    /\ IsSessionGet(net[2]) /\ net[2].resp.state = "not_started"
    /\ IsSessionGet(net[3]) /\ net[3].resp.state = "idle"
    /\ net[1].resp.id = "5" /\ self.session_id = "5"

\* C11: a creation poll that reports starting or not_started neither returns
\* nor fails: the loop sleeps the fixed interval once and polls the same
\* session again, however many such polls came before.
InProgressSessionPoll(x) ==
    IsSessionGet(x) /\ x.resp.state \in InProgressSessionStates

C11_InProgressPollsAgain ==
    \A i \in 1..Len(net) :
        InProgressSessionPoll(net[i]) =>
            /\ i < Len(net) =>
                  /\ IsSessionGet(net[i + 1])
                  /\ net[i + 1].req.url = net[i].req.url
                  /\ net[i + 1].at = net[i].at + SleepInterval
            /\ i = Len(net) =>
                  /\ pc \in {"create_sleep", "create_poll"}
                  /\ result = NoResult
                  /\ clock = net[i].at + (IF pc = "create_poll" THEN SleepInterval ELSE 0)

C11_Witness ==
    /\ Len(net) >= 5
    /\ \A i \in 2..4 : InProgressSessionPoll(net[i])
    /\ net[3].resp.state = "not_started"
    /\ IsSessionGet(net[5])

\* C12: every statement poll asks for the id that the latest statement
\* submission before it was answered with, and a value returned by
\* submit_statement is the text of the latest poll; so a second call with the
\* same code sends its own submission and polls its own statement.
LatestStatementPost(i) ==
    CHOOSE k \in 1..(i - 1) :
        /\ IsStatementPost(net[k])
        /\ \A j \in (k + 1)..(i - 1) : ~IsStatementPost(net[j])

C12_IndependentSubmissions ==
    /\ \A i \in 1..Len(net) :
          IsStatementGet(net[i]) =>
              /\ \E k \in 1..(i - 1) : IsStatementPost(net[k])
              /\ net[i].req.url[5] = net[LatestStatementPost(i)].resp.id
              /\ \A j \in (LatestStatementPost(i) + 1)..(i - 1) : IsStatementGet(net[j])
    /\ (result.op = "submit_statement" /\ result.kind = "return") =>
          /\ IsStatementGet(LastX)
          /\ result.value = LastX.resp.output.text

C12_Witness ==
    /\ Len(net) = 6
    /\ IsStatementPost(net[3]) /\ IsStatementGet(net[4])
    /\ IsStatementPost(net[5]) /\ IsStatementGet(net[6])
    /\ net[3].req.data = net[5].req.data
    /\ net[3].resp.id = "0" /\ net[5].resp.id = "5"
    /\ net[4].req.url[5] = "0" /\ net[6].req.url[5] = "5"
    /\ net[4].resp.output.text = "2"
    /\ result = Returned("submit_statement", "res0")

\* C13: every request carries the header Content-Type: application/json, and
\* no operation fails for want of the headers attribute.
C13_HeadersOnEveryRequest ==
    /\ \A i \in 1..Len(net) : net[i].req.headers = JsonHeaders
    /\ result.err # AttributeError("headers")

\* C14: two consecutive polls of a statement are one fixed wait apart,
\* whatever state the earlier poll reported.
C14_PollsOneWaitApart ==
    \A i \in 1..(Len(net) - 1) :
        (IsStatementGet(net[i]) /\ IsStatementGet(net[i + 1])) =>
            net[i + 1].at = net[i].at + SleepInterval

\* C15: right after a statement poll that reports a state outside running,
\* waiting, error and available, get_output has neither returned nor raised:
\* it is still in its loop, about to poll again.
HandledStatementStates == {"running", "waiting", "error", "available"}

UnhandledStatementPoll(x) ==
    IsStatementGet(x) /\ x.resp.state \notin HandledStatementStates

C15_UnhandledStateKeepsLooping ==
    /\ (Sent /\ UnhandledStatementPoll(LastX)) =>
          /\ pc = "stmt_poll"
          /\ result = NoResult
    /\ \A i \in 1..(Len(net) - 1) :
          UnhandledStatementPoll(net[i]) =>
              IsStatementGet(net[i + 1]) /\ net[i + 1].req.url = net[i].req.url

C15_Witness ==
    /\ Len(net) >= 5
    /\ UnhandledStatementPoll(LastX) /\ LastX.resp.state = None
    /\ UnhandledStatementPoll(net[Len(net) - 1]) /\ net[Len(net) - 1].resp.state = "cancelled"
    /\ pc = "stmt_poll"

\* C16: a statement poll that reports running or waiting neither returns nor
\* fails: the loop sleeps the fixed interval once and polls the same statement
\* again, however many such polls came before.
InProgressStatementPoll(x) ==
    IsStatementGet(x) /\ x.resp.state \in {"running", "waiting"}

C16_RunningWaitingPollsAgain ==
    \A i \in 1..Len(net) :
        InProgressStatementPoll(net[i]) =>
            /\ i < Len(net) =>
                  /\ IsStatementGet(net[i + 1])
                  /\ net[i + 1].req.url = net[i].req.url
                  /\ net[i + 1].at = net[i].at + SleepInterval
            /\ i = Len(net) =>
                  /\ pc \in {"stmt_sleep", "stmt_poll"}
                  /\ result = NoResult
                  /\ clock = net[i].at + (IF pc = "stmt_poll" THEN SleepInterval ELSE 0)

C16_Witness ==
    /\ Len(net) = 6
    /\ InProgressStatementPoll(net[4]) /\ net[4].resp.state = "waiting"
    /\ InProgressStatementPoll(net[5]) /\ net[5].resp.state = "running"
    /\ IsStatementGet(net[6])

\* C17: create_session is in its loop exactly while every session poll so far
\* reported starting or not_started, and get_output is in its loop exactly
\* while no poll of the current statement reported available or error; the
\* poll that reports a terminal state ends the operation with a return or a
\* raise.
TerminalStatementStates == {"available", "error"}

C17_LoopsEndOnTerminalState ==
    /\ (pc \in {"create_poll", "create_sleep"}) <=>
          /\ Sent
          /\ net[1].resp.status = created /\ net[1].resp.id # Absent
          /\ \A i \in 2..Len(net) : InProgressSessionPoll(net[i])
    /\ (pc \in {"stmt_poll", "stmt_sleep"}) <=>
          \E k \in 1..Len(net) :
              /\ IsStatementPost(net[k])
              /\ net[k].resp.status = created /\ net[k].resp.id # Absent
              /\ \A j \in (k + 1)..Len(net) :
                    IsStatementGet(net[j]) /\ net[j].resp.state \notin TerminalStatementStates
    /\ (Sent /\ IsSessionGet(LastX) /\ ~InProgressSessionPoll(LastX)) =>
          result.op = "__init__" /\ result.kind \in {"return", "raise"}
    /\ (Sent /\ IsStatementGet(LastX) /\ LastX.resp.state \in TerminalStatementStates) =>
          pc = "ready" /\ result.op = "submit_statement" /\ result.kind \in {"return", "raise"}

C17_Witness ==
    /\ Len(net) = 6
    /\ InProgressSessionPoll(net[2])
    /\ IsSessionGet(net[3]) /\ net[3].resp.state = "idle"
    /\ InProgressStatementPoll(net[5])
    /\ IsStatementGet(net[6]) /\ net[6].resp.state = "error"
    /\ pc = "ready"

C19_NoRequestAfterRaise ==
    /\ result.kind = "raise" => pc \in {"dead", "ready"}
    /\ pc = "dead" =>
          /\ result.kind = "raise" /\ result.op = "__init__"
          /\ \A i \in 1..Len(net) : ~IsDelete(net[i])
          /\ ~ENABLED Next
    /\ (result.kind = "raise" /\ result.err # AttributeError("headers")) =>
          /\ Sent
          /\ result.op = "__init__" =>
                \/ Len(net) = 1 /\ IsSessionPost(LastX)
                \/ IsSessionGet(LastX) /\ ~InProgressSessionPoll(LastX)
          /\ result.op = "remove_session" => IsDelete(LastX) /\ LastX.resp.status # ok
          /\ result.op = "submit_statement" =>
                \/ IsStatementPost(LastX)
                \/ IsStatementGet(LastX) /\ LastX.resp.state \in TerminalStatementStates

C19_Witness ==
    /\ Len(net) = 3
    /\ IsSessionGet(LastX) /\ LastX.resp.state = "error"
    /\ result = Raised("__init__", InitializationFailed)
    /\ pc = "dead"

\* C20: no step of a constructed client changes its attributes; each request
\* it sends goes to its livy_url and session_id, also after a DELETE answered
\* 200; and it raises only on the response to a request sent in that step.
C20_AttributesUnchanged ==
    [][Constructed =>
          /\ self' = self
          /\ net' # net =>
                LET x == net'[Len(net')] IN
                /\ x.req.url[1] = self.livy_url
                /\ x.req.url[3] = self.session_id
          /\ (result' # result /\ result'.kind = "raise") => net' # net]_vars

C20_Witness ==
    /\ Len(net) = 5
    /\ IsDelete(net[3]) /\ net[3].resp.status = ok
    /\ IsDelete(net[4]) /\ net[4].resp.status = 404
    /\ IsStatementPost(net[5]) /\ net[5].req.url[3] = net[3].req.url[3]
    /\ self.session_id = net[1].resp.id

====
